---- MODULE Spec2Model ----
(***************************************************************************)
(* The browser client of the contract RAG agent: the workspace binding     *)
(* kept in localStorage (utils/namespace), the upload component            *)
(* (ContractUpload.tsx) with its per-file status list, and the query       *)
(* component (ContractQuery.tsx).  Strings that the code inspects          *)
(* character by character (workspace names, questions) are sequences of    *)
(* one-character strings.  Every handler runs to its next await in one     *)
(* step; the continuation after an await is the step that resolves the     *)
(* request.                                                                *)
(***************************************************************************)
EXTENDS Integers, Sequences, FiniteSets, TLC

\* ------------------------------------------------------------- bounds
MaxBatches == 2      \* onDrop calls that start a batch
MaxBatchLen == 2     \* files in one onDrop call
MaxQueries == 2      \* query requests issued
MaxChunks == 1       \* chunks_created / total_chunks reported by the backend
MaxSources == 1      \* sources in one query response
MaxPageBatches == 1  \* batches, when both components run together
MaxPageQueries == 1  \* queries, when both components run together
MaxRawLen == 3       \* characters of a raw value typed into the workspace field

\* ------------------------------------------------------------- values
Files == {"f1", "f2"}                 \* File objects, compared by reference
Absent == <<"<null>">>                \* localStorage.getItem(...) === null
Undefined == <<"<undefined>">>        \* a string field that was never assigned
NoNumber == -1                        \* a number field that was never assigned
EmptyStr == << >>                     \* ''
Null == [type |-> "null", text |-> << >>]   \* globalMessage === null

\* Characters [A-Za-z0-9_-], by representatives of each range.
AllowedChars == {"a", "Z", "0", "-", "_"}
WhiteSpace == {" "}

\* Values typed into the workspace field and into the question field.  The
\* upload component alone is explored with one workspace name, the query
\* component and the whole page with two.
NamespaceInputs == {<< >>, <<"a", "!">>}
MoreNamespaceInputs == NamespaceInputs \cup {<<" ", "-", "Z">>}
QueryInputs == {<<" ">>, <<"q">>, <<" ", "r", " ">>}

\* Raw values of the workspace field, for the sanitizer alone: every string of
\* up to MaxRawLen characters over the allowed ones, a blank and a symbol.
RawChars == AllowedChars \cup {" ", "!"}
RawValues == UNION {[1..n -> RawChars] : n \in 0..MaxRawLen}

\* A replace without the g flag: only the first match is removed.
SanitizeFirstOnly(value) ==
    LET bad == {p \in 1..Len(value) : value[p] \notin AllowedChars} IN
    IF bad = {} THEN value
    ELSE LET p == CHOOSE q \in bad : \A r \in bad : q <= r IN
         SubSeq(value, 1, p - 1) \o SubSeq(value, p + 1, Len(value))

\* value.replace(/[^a-zA-Z0-9-_]/g, '')
Sanitize(value) == SelectSeq(value, LAMBDA c : c \in AllowedChars)

\* String.prototype.trim
RECURSIVE TrimStart(_)
TrimStart(s) ==
    IF s = << >> THEN << >>
    ELSE IF Head(s) \in WhiteSpace THEN TrimStart(Tail(s)) ELSE s

RECURSIVE TrimEnd(_)
TrimEnd(s) ==
    IF s = << >> THEN << >>
    ELSE IF s[Len(s)] \in WhiteSpace THEN TrimEnd(SubSeq(s, 1, Len(s) - 1)) ELSE s

Trim(s) == TrimEnd(TrimStart(s))

\* a || b on strings (and null): the first operand unless it is falsy
OrElse(a, b) == IF a \in {Absent, Undefined, EmptyStr} THEN b ELSE a

\* A File[] as a drop or a file dialog delivers it: up to hi distinct File
\* objects, in any order.
FileLists(S, hi) ==
    {fs \in UNION {[1..n -> S] : n \in 0..hi} :
        \A j, k \in 1..Len(fs) : j # k => fs[j] # fs[k]}

VARIABLES
    stored,          \* localStorage['contractNamespace'], or Absent
    namespace,       \* ContractUpload: useState namespace
    namespaceError,  \* ContractUpload: useState namespaceError
    files,           \* ContractUpload: useState files (FileUploadStatus[])
    globalMessage,   \* ContractUpload: useState globalMessage
    batches,         \* the onDrop invocations: arguments, locals, and the
                     \* requests each sent with their resolutions, in order
    query,           \* ContractQuery: useState query
    answer,          \* ContractQuery: useState answer
    sources,         \* ContractQuery: useState sources
    loading,         \* ContractQuery: useState loading
    error,           \* ContractQuery: useState error
    queries          \* the handleSubmit invocations that sent a request

uploadState == <<namespace, namespaceError, files, globalMessage, batches>>
queryState == <<query, answer, sources, loading, error, queries>>
vars == <<stored, uploadState, queryState>>

\* ------------------------------------------------------------- store
\* utils/namespace: setNamespace / getNamespace
SetNamespace(ns) == stored' = ns
GetNamespace == stored

\* Values this program can have persisted in an earlier page load.
PersistedValues == {Absent} \cup {Sanitize(x) : x \in NamespaceInputs}

\* ------------------------------------------------------------- upload
\* What one upload request can resolve to: a response body, or a rejection.
UploadOutcomes ==
    {[kind |-> "resolved", results |-> <<[status |-> "success", chunks_created |-> c, message |-> Undefined]>>, total_chunks |-> c] : c \in 1..MaxChunks}
    \cup {[kind |-> "resolved", results |-> <<[status |-> "error", chunks_created |-> NoNumber, message |-> <<"server: bad pdf">>]>>, total_chunks |-> 0]}
    \cup {[kind |-> "resolved", results |-> << >>, total_chunks |-> c] : c \in 1..MaxChunks}
    \cup {[kind |-> "rejected", detail |-> d, message |-> <<"Network Error">>] : d \in {Undefined, <<"server: detail">>}}

Init ==
    /\ stored \in PersistedValues
    /\ namespace = OrElse(GetNamespace, EmptyStr)
    /\ namespaceError = EmptyStr
    /\ files = << >>
    /\ globalMessage = Null
    /\ batches = << >>
    /\ query = EmptyStr
    /\ answer = EmptyStr
    /\ sources = << >>
    /\ loading = FALSE
    /\ error = EmptyStr
    /\ queries = << >>

\* ContractUpload.handleNamespaceChange
HandleNamespaceChange(value) ==
    LET sanitized == Sanitize(value) IN
    /\ namespace' = sanitized
    /\ SetNamespace(sanitized)
    /\ namespaceError' = EmptyStr
    /\ UNCHANGED <<files, globalMessage, batches, queryState>>

\* uploadContract(file, namespace): the request as the backend sees it
UploadRequest(i, file, ns) ==
    [ev |-> "request", index |-> i, file |-> file, namespace |-> ns,
     outcome |-> [kind |-> "pending"]]

\* The promise of request i settles with outcome
UploadResolution(i, file, ns, outcome) ==
    [ev |-> "settled", index |-> i, file |-> file, namespace |-> ns,
     outcome |-> outcome]

\* Items for the dropped files in reverse order.
NewFilesReversed(b, acceptedFiles) ==
    [k \in 1..Len(acceptedFiles) |->
        [file |-> acceptedFiles[Len(acceptedFiles) + 1 - k], status |-> "uploading",
         message |-> Undefined, chunksCreated |-> NoNumber,
         origin |-> <<b, Len(acceptedFiles) + 1 - k>>]]

\* onDrop, lines 49-52: the new items.  origin is bookkeeping that the code
\* does not have: the batch and the position the item was created for.  No
\* action reads it.
NewFiles(b, acceptedFiles) ==
    [k \in 1..Len(acceptedFiles) |->
        [file |-> acceptedFiles[k], status |-> "uploading",
         message |-> Undefined, chunksCreated |-> NoNumber,
         origin |-> <<b, k>>]]

\* onDrop, lines 40-43
MissingWorkspaceMessage ==
    [type |-> "error",
     text |-> <<"Please enter a workspace name before uploading documents.">>]

\* A validation that compares with null instead of testing for emptiness.
NamespaceIsNull(ns) == ns = Absent

\* onDrop, line 38: !namespace.trim()
NamespaceMissing(ns) == Trim(ns) = EmptyStr

\* A loop body that always takes the first file.
FirstFile(acceptedFiles, i) == acceptedFiles[1]

\* onDrop, line 60: const file = acceptedFiles[i] (i counted from 1 here)
FileAt(acceptedFiles, i) == acceptedFiles[i]

\* An onDrop that looks at the workspace before it looks at the files.
OnDropWorkspaceFirst(acceptedFiles) ==
    /\ UNCHANGED <<stored, namespace, queryState>>
    /\ IF NamespaceMissing(namespace)
       THEN /\ namespaceError' = <<"Workspace name is required">>
            /\ globalMessage' = MissingWorkspaceMessage
            /\ UNCHANGED <<files, batches>>
       ELSE IF Len(acceptedFiles) = 0
       THEN UNCHANGED <<namespaceError, files, globalMessage, batches>>
       ELSE /\ globalMessage' = Null
            /\ files' = files \o NewFiles(Len(batches) + 1, acceptedFiles)
            /\ batches' = Append(batches,
                   [acceptedFiles |-> acceptedFiles, namespace |-> namespace,
                    i |-> 1, successCount |-> 0, errorCount |-> 0, pc |-> "await",
                    log |-> <<UploadRequest(1, FileAt(acceptedFiles, 1), namespace)>>])
            /\ UNCHANGED namespaceError

\* ContractUpload.onDrop up to its first await.  namespace is the value of
\* the render that created this onDrop; the batch keeps it for all its
\* requests and for its final message.  The dropzone stays enabled while a
\* batch is running.
OnDrop(acceptedFiles) ==
    /\ UNCHANGED <<stored, namespace, queryState>>
    /\ IF Len(acceptedFiles) = 0
       THEN UNCHANGED <<namespaceError, files, globalMessage, batches>>
       ELSE IF NamespaceMissing(namespace)
       THEN /\ namespaceError' = <<"Workspace name is required">>
            /\ globalMessage' = MissingWorkspaceMessage
            /\ UNCHANGED <<files, batches>>
       ELSE /\ globalMessage' = Null
            /\ files' = files \o NewFiles(Len(batches) + 1, acceptedFiles)
            /\ batches' = Append(batches,
                   [acceptedFiles |-> acceptedFiles, namespace |-> namespace,
                    i |-> 1, successCount |-> 0, errorCount |-> 0, pc |-> "await",
                    log |-> <<UploadRequest(1, FileAt(acceptedFiles, 1), namespace)>>])
            /\ UNCHANGED namespaceError

\* A response without per-file results read as a failure.
FileResultOrError(result) ==
    IF Len(result.results) > 0
    THEN result.results[1]
    ELSE [status |-> "error", chunks_created |-> result.total_chunks, message |-> Undefined]

\* onDrop, line 64: result.results?.[0] || { status: 'success', chunks_created: result.total_chunks }
FileResult(result) ==
    IF Len(result.results) > 0
    THEN result.results[1]
    ELSE [status |-> "success", chunks_created |-> result.total_chunks, message |-> Undefined]

\* Counters that take every resolved response for a success.
CountResolvedAsSuccess(batch, outcome) ==
    IF outcome.kind = "resolved"
    THEN [batch EXCEPT !.successCount = @ + 1]
    ELSE [batch EXCEPT !.errorCount = @ + 1]

\* onDrop, lines 69-73 and 90: the counters after one request
CountOutcome(batch, outcome) ==
    IF outcome.kind = "resolved" /\ FileResult(outcome).status = "success"
    THEN [batch EXCEPT !.successCount = @ + 1]
    ELSE [batch EXCEPT !.errorCount = @ + 1]

\* onDrop, lines 75-88 and 91-101: setFiles(prev => prev.map(...))
MarkFile(prev, file, outcome) ==
    [k \in 1..Len(prev) |->
        IF prev[k].file = file
        THEN IF outcome.kind = "resolved"
             THEN LET fileResult == FileResult(outcome) IN
                  [prev[k] EXCEPT
                     !.status = fileResult.status,
                     !.message = IF fileResult.status = "success"
                                 THEN <<"Processed successfully! ", fileResult.chunks_created, " sections analyzed.">>
                                 ELSE fileResult.message,
                     !.chunksCreated = fileResult.chunks_created]
             ELSE [prev[k] EXCEPT
                     !.status = "error",
                     !.message = OrElse(outcome.detail, outcome.message)]
        ELSE prev[k]]

\* onDrop, lines 105-120: the message of a finished batch
BatchMessage(successCount, errorCount, ns) ==
    IF errorCount = 0
    THEN [type |-> "success",
          text |-> <<successCount, IF successCount > 1 THEN " documents" ELSE " document",
                     " uploaded successfully to workspace ", ns>>]
    ELSE IF successCount = 0
    THEN [type |-> "error",
          text |-> <<"Failed to upload ", errorCount,
                     IF errorCount > 1 THEN " documents" ELSE " document">>]
    ELSE [type |-> "error",
          text |-> <<successCount, " uploaded, ", errorCount, " failed">>]

\* A continuation whose catch leaves the loop: after a rejected request the
\* batch sends nothing more and shows no message.
UploadResolveAbortOnReject(b, outcome) ==
    /\ b \in 1..Len(batches)
    /\ batches[b].pc = "await"
    /\ LET batch == batches[b]
           file == FileAt(batch.acceptedFiles, batch.i)
           counted == CountOutcome(batch, outcome)
           resolution == UploadResolution(batch.i, file, batch.namespace, outcome)
       IN
       /\ files' = MarkFile(files, file, outcome)
       /\ IF outcome.kind = "rejected"
          THEN /\ batches' = [batches EXCEPT ![b] =
                     [counted EXCEPT !.pc = "done", !.log = Append(@, resolution)]]
               /\ UNCHANGED globalMessage
          ELSE IF batch.i < Len(batch.acceptedFiles)
          THEN /\ batches' = [batches EXCEPT ![b] =
                     [counted EXCEPT
                        !.i = @ + 1,
                        !.log = @ \o <<resolution,
                                       UploadRequest(batch.i + 1,
                                           FileAt(batch.acceptedFiles, batch.i + 1),
                                           batch.namespace)>>]]
               /\ UNCHANGED globalMessage
          ELSE /\ batches' = [batches EXCEPT ![b] =
                     [counted EXCEPT !.i = @ + 1, !.pc = "done",
                                     !.log = Append(@, resolution)]]
               /\ globalMessage' = BatchMessage(counted.successCount,
                                                counted.errorCount, batch.namespace)
    /\ UNCHANGED <<stored, namespace, namespaceError, queryState>>

\* The continuation of onDrop's loop when the request of batch b resolves:
\* the rest of the iteration, then the next request or the final message.
UploadResolve(b, outcome) ==
    /\ b \in 1..Len(batches)
    /\ batches[b].pc = "await"
    /\ LET batch == batches[b]
           file == FileAt(batch.acceptedFiles, batch.i)
           counted == CountOutcome(batch, outcome)
           resolution == UploadResolution(batch.i, file, batch.namespace, outcome)
       IN
       /\ files' = MarkFile(files, file, outcome)
       /\ IF batch.i < Len(batch.acceptedFiles)
          THEN /\ batches' = [batches EXCEPT ![b] =
                     [counted EXCEPT
                        !.i = @ + 1,
                        !.log = @ \o <<resolution,
                                       UploadRequest(batch.i + 1,
                                           FileAt(batch.acceptedFiles, batch.i + 1),
                                           batch.namespace)>>]]
               /\ UNCHANGED globalMessage
          ELSE /\ batches' = [batches EXCEPT ![b] =
                     [counted EXCEPT !.i = @ + 1, !.pc = "done",
                                     !.log = Append(@, resolution)]]
               /\ globalMessage' = BatchMessage(counted.successCount,
                                                counted.errorCount, batch.namespace)
    /\ UNCHANGED <<stored, namespace, namespaceError, queryState>>

\* ContractUpload.removeFile
RemoveFile(prev, fileToRemove) ==
    SelectSeq(prev, LAMBDA f : f.file # fileToRemove)

\* The delete button of the item at position k, rendered only when the item
\* is not uploading (lines 428-442).
ClickRemove(k) ==
    /\ k \in 1..Len(files)
    /\ files[k].status # "uploading"
    /\ files' = RemoveFile(files, files[k].file)
    /\ UNCHANGED <<stored, namespace, namespaceError, globalMessage, batches, queryState>>

\* ------------------------------------------------------------- query
topK == 10           \* const [topK] = useState(10)

Answers == {<<"answer A">>, <<"answer B">>}
Documents == {"d1.pdf", "d2.pdf"}

\* The source lists a response can carry: ranks 1..n, any documents
SourceLists ==
    UNION {[1..n -> {[source_num |-> r, document |-> d, page |-> NoNumber,
                      source |-> d, excerpt |-> <<"excerpt">>]
                        : r \in 1..MaxSources, d \in Documents}]
             : n \in 0..MaxSources}

RankedSourceLists ==
    {l \in SourceLists : \A r \in 1..Len(l) : l[r].source_num = r}

\* What one query request can resolve to: a response body, or a rejection.
QueryOutcomes ==
    {[kind |-> "resolved", answer |-> a, sources |-> l]
        : a \in Answers, l \in RankedSourceLists}
    \cup {[kind |-> "rejected", detail |-> d, message |-> m]
        : d \in {Undefined, <<"server: detail">>}, m \in {<<"Network Error">>}}
    \cup {[kind |-> "rejected", detail |-> Undefined, message |-> Undefined]}

\* the question field's onChange
SetQuery(value) ==
    /\ query' = value
    /\ UNCHANGED <<stored, uploadState, answer, sources, loading, error, queries>>

\* A request that carries the trimmed question.
QueryRequestTrimmed(q, ns, k) == [query |-> Trim(q), top_k |-> k, namespace |-> ns]

\* queryContracts(query, namespace, topK): the request as the backend sees it
QueryRequest(q, ns, k) == [query |-> q, top_k |-> k, namespace |-> ns]

\* The message handleSubmit shows when no workspace is persisted
NoWorkspaceError == <<"Please upload documents first to set a workspace name.">>

\* A test for the empty string only.
QuestionEmpty(q) == q = EmptyStr

\* handleSubmit, line 33: !query.trim()
QuestionBlank(q) == Trim(q) = EmptyStr

\* A test for null only.
IsNull(ns) == ns = Absent

\* handleSubmit, line 36: !namespace
NoNamespace(ns) == OrElse(ns, EmptyStr) = EmptyStr

\* ContractQuery.handleSubmit up to its await.  The button calls it (disabled
\* while loading or with a blank question) and so does Enter in the question
\* field (handleKeyPress, never disabled): it can run while a query is
\* outstanding.
HandleSubmit ==
    /\ UNCHANGED <<stored, uploadState, query>>
    /\ IF QuestionBlank(query)
       THEN UNCHANGED <<answer, sources, loading, error, queries>>
       ELSE LET ns == GetNamespace IN
            IF NoNamespace(ns)
            THEN /\ error' = NoWorkspaceError
                 /\ UNCHANGED <<answer, sources, loading, queries>>
            ELSE /\ loading' = TRUE
                 /\ answer' = EmptyStr
                 /\ sources' = << >>
                 /\ error' = EmptyStr
                 /\ queries' = Append(queries,
                        [request |-> QueryRequest(query, ns, topK),
                         pc |-> "await", outcome |-> [kind |-> "pending"],
                         settled |-> 0])

\* How many requests have settled
Settled(qs) == Cardinality({k \in 1..Len(qs) : qs[k].pc = "done"})

\* A continuation that drops the response of any invocation but the newest.
QueryResolveNewestOnly(k, outcome) ==
    /\ k \in 1..Len(queries)
    /\ queries[k].pc = "await"
    /\ IF k < Len(queries)
       THEN UNCHANGED <<answer, sources, error>>
       ELSE IF outcome.kind = "resolved"
       THEN /\ answer' = outcome.answer
            /\ sources' = outcome.sources
            /\ UNCHANGED error
       ELSE /\ error' = OrElse(outcome.detail,
                               OrElse(outcome.message, <<"Failed to get answer">>))
            /\ UNCHANGED <<answer, sources>>
    /\ loading' = FALSE
    /\ queries' = [queries EXCEPT ![k] =
           [@ EXCEPT !.pc = "done", !.outcome = outcome,
                     !.settled = Settled(queries) + 1]]
    /\ UNCHANGED <<stored, uploadState, query>>

\* A continuation that adds the sources of the response to those displayed.
QueryResolveAppending(k, outcome) ==
    /\ k \in 1..Len(queries)
    /\ queries[k].pc = "await"
    /\ IF outcome.kind = "resolved"
       THEN /\ answer' = outcome.answer
            /\ sources' = sources \o outcome.sources
            /\ UNCHANGED error
       ELSE /\ error' = OrElse(outcome.detail,
                               OrElse(outcome.message, <<"Failed to get answer">>))
            /\ UNCHANGED <<answer, sources>>
    /\ loading' = FALSE
    /\ queries' = [queries EXCEPT ![k] =
           [@ EXCEPT !.pc = "done", !.outcome = outcome,
                     !.settled = Settled(queries) + 1]]
    /\ UNCHANGED <<stored, uploadState, query>>

\* The continuation of handleSubmit when the request of invocation k settles:
\* the rest of try, or catch, then finally.
QueryResolve(k, outcome) ==
    /\ k \in 1..Len(queries)
    /\ queries[k].pc = "await"
    /\ IF outcome.kind = "resolved"
       THEN /\ answer' = outcome.answer
            /\ sources' = outcome.sources
            /\ UNCHANGED error
       ELSE /\ error' = OrElse(outcome.detail,
                               OrElse(outcome.message, <<"Failed to get answer">>))
            /\ UNCHANGED <<answer, sources>>
    /\ loading' = FALSE
    /\ queries' = [queries EXCEPT ![k] =
           [@ EXCEPT !.pc = "done", !.outcome = outcome,
                     !.settled = Settled(queries) + 1]]
    /\ UNCHANGED <<stored, uploadState, query>>

\* ------------------------------------------------------------- specifications
\* The upload component with the workspace field.
NextUpload ==
    \/ \E value \in NamespaceInputs : HandleNamespaceChange(value)
    \/ \E acceptedFiles \in FileLists(Files, MaxBatchLen) :
          /\ Len(batches) < MaxBatches
          /\ OnDrop(acceptedFiles)
    \/ \E b \in 1..MaxBatches, outcome \in UploadOutcomes : UploadResolve(b, outcome)
    \/ \E k \in 1..(MaxBatches * MaxBatchLen) : ClickRemove(k)

SpecUpload == Init /\ [][NextUpload]_vars

\* The query component with the workspace field.
NextQuery ==
    \/ \E value \in MoreNamespaceInputs : HandleNamespaceChange(value)
    \/ \E value \in QueryInputs : SetQuery(value)
    \/ Len(queries) < MaxQueries /\ HandleSubmit
    \/ \E k \in 1..MaxQueries, outcome \in QueryOutcomes : QueryResolve(k, outcome)

SpecQuery == Init /\ [][NextQuery]_vars

\* The upload component when every request that was sent is eventually
\* answered or rejected: the continuation of each batch's pending await runs.
SpecUploadFair ==
    /\ SpecUpload
    /\ \A b \in 1..MaxBatches :
          WF_vars(\E outcome \in UploadOutcomes : UploadResolve(b, outcome))

\* The whole page: both components mounted side by side (App), with one
\* batch and one query.
Next ==
    \/ \E value \in MoreNamespaceInputs : HandleNamespaceChange(value)
    \/ \E acceptedFiles \in FileLists(Files, MaxBatchLen) :
          /\ Len(batches) < MaxPageBatches
          /\ OnDrop(acceptedFiles)
    \/ \E b \in 1..MaxPageBatches, outcome \in UploadOutcomes : UploadResolve(b, outcome)
    \/ \E k \in 1..(MaxPageBatches * MaxBatchLen) : ClickRemove(k)
    \/ \E value \in QueryInputs : SetQuery(value)
    \/ Len(queries) < MaxPageQueries /\ HandleSubmit
    \/ \E k \in 1..MaxPageQueries, outcome \in QueryOutcomes : QueryResolve(k, outcome)

Spec == Init /\ [][Next]_vars

\* utils/namespace: clearNamespace, called while the page is open.  It removes
\* the item from localStorage; no component state is touched.
ClearNamespace ==
    /\ stored' = Absent
    /\ UNCHANGED <<uploadState, queryState>>

\* The whole page together with clearNamespace.
NextBinding ==
    \/ \E value \in NamespaceInputs : HandleNamespaceChange(value)
    \/ ClearNamespace
    \/ \E acceptedFiles \in FileLists(Files, MaxBatchLen) :
          /\ Len(batches) < MaxPageBatches
          /\ OnDrop(acceptedFiles)
    \/ \E b \in 1..MaxPageBatches, outcome \in UploadOutcomes : UploadResolve(b, outcome)
    \/ \E k \in 1..(MaxPageBatches * MaxBatchLen) : ClickRemove(k)
    \/ \E value \in QueryInputs : SetQuery(value)
    \/ Len(queries) < MaxPageQueries /\ HandleSubmit
    \/ \E k \in 1..MaxPageQueries, outcome \in QueryOutcomes : QueryResolve(k, outcome)

SpecBinding == Init /\ [][NextBinding]_vars

\* The workspace field alone, fed every raw value.
NextSanitize == \E value \in RawValues : HandleNamespaceChange(value)

SpecSanitize == Init /\ [][NextSanitize]_vars

\* ------------------------------------------------------------- properties
BatchIds == 1..Len(batches)

\* The positions of the log of batch b that hold an event of kind ev
Events(b, ev) == {p \in 1..Len(batches[b].log) : batches[b].log[p].ev = ev}

\* The requests of batch b that were sent, and those that have settled
Sent(b) == {batches[b].log[p].index : p \in Events(b, "request")}
SettledRequests(b) == {batches[b].log[p].index : p \in Events(b, "settled")}
Outstanding(b) == Sent(b) \ SettledRequests(b)

UploadsInFlight == UNION {{<<b, i>> : i \in Outstanding(b)} : b \in BatchIds}

\* A request succeeded: it was answered, and the answer reports no error for
\* the file.
RequestSucceeded(outcome) ==
    /\ outcome.kind = "resolved"
    /\ \A r \in 1..Len(outcome.results) : outcome.results[r].status = "success"

\* The outcome of request i of batch b, once settled
OutcomeOf(b, i) ==
    LET log == batches[b].log
        p == CHOOSE q \in 1..Len(log) : log[q].ev = "settled" /\ log[q].index = i
    IN log[p].outcome

\* The workspace is unbound: nothing persisted, or the empty string
Unbound == stored = Absent \/ stored = EmptyStr

\* C1: in every reachable state at most one upload request is in flight,
\* whatever batches were submitted and whenever.
C1_AtMostOneUploadInFlight == Cardinality(UploadsInFlight) <= 1

\* C2: the requests of one batch are one per file, in the order of the files,
\* never repeated, and each is sent only after the one before it has settled:
\* the batch's log alternates request, settled, request, ... over positions
\* 1, 2, ... of its files, and is complete when the batch is done.
C2_RequestsInOrder ==
    \A b \in BatchIds :
        LET log == batches[b].log
            fs == batches[b].acceptedFiles
        IN /\ Len(log) <= 2 * Len(fs)
           /\ \A p \in 1..Len(log) :
                 /\ log[p].ev = IF p % 2 = 1 THEN "request" ELSE "settled"
                 /\ log[p].index = (p + 1) \div 2
                 /\ log[p].file = fs[(p + 1) \div 2]
           /\ batches[b].pc = "done" <=> Len(log) = 2 * Len(fs)
           /\ batches[b].pc = "await" <=> Len(log) % 2 = 1

\* C2 witness: a batch of two files is done, its first request was rejected,
\* and another batch ran at the same time.
C2_Witness ==
    \E b \in BatchIds :
        /\ batches[b].pc = "done"
        /\ Len(batches[b].acceptedFiles) = 2
        /\ OutcomeOf(b, 1).kind = "rejected"
        /\ \E c \in BatchIds : c # b /\ batches[c].pc = "await"

\* C3: an item that is Success or Failed keeps its status and its message in
\* every step that removes nothing.
C3_SettledItemsFrozen ==
    [][Len(files') >= Len(files) =>
          \A k \in 1..Len(files) :
              files[k].status # "uploading" =>
                  /\ files'[k].status = files[k].status
                  /\ files'[k].message = files[k].message]_vars

\* C4: onDrop with files while the workspace is unbound sends no request,
\* adds no item, changes no item, and shows the missing-workspace error.
C4_MissingWorkspace ==
    [][\A fs \in FileLists(Files, MaxBatchLen) :
          (Len(fs) > 0 /\ Unbound /\ OnDrop(fs)) =>
              /\ batches' = batches
              /\ files' = files
              /\ globalMessage'.type = "error"
              /\ globalMessage' = MissingWorkspaceMessage]_vars

\* C4 witness: the missing-workspace error is shown while items of an earlier
\* batch are in the list.
C4_Witness ==
    /\ Unbound
    /\ globalMessage = MissingWorkspaceMessage
    /\ namespaceError # EmptyStr
    /\ Len(files) > 0
    /\ \A b \in BatchIds : batches[b].pc = "done"

\* C5: once a batch is done each of its items is Success exactly when its own
\* request succeeded and Failed exactly when its own request failed.
C5_ItemsShowOwnOutcome ==
    \A k \in 1..Len(files) :
        LET b == files[k].origin[1]
            i == files[k].origin[2]
        IN batches[b].pc = "done" =>
              /\ files[k].status = "success" <=> RequestSucceeded(OutcomeOf(b, i))
              /\ files[k].status = "error" <=> ~RequestSucceeded(OutcomeOf(b, i))

\* The numbers of requests of batch b that succeeded and that failed
Succeeded(b) ==
    Cardinality({i \in SettledRequests(b) : RequestSucceeded(OutcomeOf(b, i))})

Failed(b) ==
    Cardinality({i \in SettledRequests(b) : ~RequestSucceeded(OutcomeOf(b, i))})

\* C6: the step that finishes a batch shows one message, decided by the
\* batch's own outcomes: no failure gives a success message with the number
\* of files and the batch's workspace, no success gives an error message with
\* the number of failures, anything else an error message with both numbers;
\* the numbers add up to the files submitted.  A step that settles a request
\* without finishing its batch leaves the message alone.
C6_BatchMessage ==
    [][\A b \in BatchIds :
          /\ (batches[b].pc = "await" /\ batches'[b].pc = "done") =>
                LET n == Len(batches[b].acceptedFiles)
                    ok == Succeeded(b)'
                    ko == Failed(b)'
                    m == globalMessage'
                IN /\ ok + ko = n
                   /\ ko = 0 => /\ m.type = "success"
                                /\ Len(m.text) = 4
                                /\ m.text[1] = n
                                /\ m.text[4] = batches[b].namespace
                   /\ (ko > 0 /\ ok = 0) => /\ m.type = "error"
                                            /\ Len(m.text) = 3
                                            /\ m.text[2] = ko
                   /\ (ko > 0 /\ ok > 0) => /\ m.type = "error"
                                            /\ Len(m.text) = 4
                                            /\ m.text[1] = ok
                                            /\ m.text[3] = ko
          /\ (batches[b].pc = "await" /\ batches'[b].pc = "await"
              /\ batches'[b].log # batches[b].log) =>
                globalMessage' = globalMessage]_vars

\* C6 witness: a batch of two files is done with one success and one failure
\* reported inside an answered request, and the mixed message is shown.
C6_Witness ==
    \E b \in BatchIds :
        /\ batches[b].pc = "done"
        /\ Succeeded(b) = 1
        /\ Failed(b) = 1
        /\ \E i \in 1..2 : /\ OutcomeOf(b, i).kind = "resolved"
                           /\ ~RequestSucceeded(OutcomeOf(b, i))
        /\ globalMessage.type = "error"
        /\ globalMessage.text = <<1, " uploaded, ", 1, " failed">>

QueryIds == 1..Len(queries)

\* C7: in the state reached when a query request is rejected, no answer and
\* no source is displayed.
C7_FailedQueryClears ==
    [][\A k \in QueryIds :
          (queries[k].pc = "await" /\ queries'[k].pc = "done"
           /\ queries'[k].outcome.kind = "rejected") =>
              /\ answer' = EmptyStr
              /\ sources' = << >>]_vars

\* C8: when no query is outstanding and the request that settled last was
\* answered, the answer and the sources displayed are those of that response.
C8_LastResolvedWins ==
    (Len(queries) > 0 /\ \A k \in QueryIds : queries[k].pc = "done") =>
        LET k == CHOOSE j \in QueryIds : queries[j].settled = Len(queries)
        IN queries[k].outcome.kind = "resolved" =>
              /\ answer = queries[k].outcome.answer
              /\ sources = queries[k].outcome.sources

\* C8 witness: two queries were outstanding together, both were answered, the
\* one submitted first settled last, and its response is what is displayed.
C8_Witness ==
    /\ Len(queries) = 2
    /\ queries[1].settled = 2
    /\ queries[2].settled = 1
    /\ queries[1].outcome.kind = "resolved"
    /\ queries[2].outcome.kind = "resolved"
    /\ queries[1].outcome.answer # queries[2].outcome.answer
    /\ queries[1].outcome.sources # queries[2].outcome.sources
    /\ answer = queries[1].outcome.answer
    /\ sources = queries[1].outcome.sources

\* C9: every file with an outstanding upload request has an item in the list.
C9_OutstandingFileHasItem ==
    \A b \in BatchIds : \A i \in Outstanding(b) :
        \E k \in 1..Len(files) : files[k].file = batches[b].acceptedFiles[i]

\* Every character of ns is one of [A-Za-z0-9_-], and there is at least one
ValidWorkspace(ns) ==
    /\ ns # Absent
    /\ Len(ns) > 0
    /\ \A p \in 1..Len(ns) : ns[p] \in AllowedChars

\* C10: a step that sends an upload request or a query request is taken with
\* a workspace bound, and the request carries a non-empty identifier made of
\* the characters [A-Za-z0-9_-].
C10_RequestsNeedWorkspace ==
    [][/\ \A b \in 1..Len(batches') :
             \A i \in Sent(b)' :
                 (b \notin BatchIds \/ i \notin Sent(b)) =>
                     /\ ~Unbound
                     /\ \A p \in Events(b, "request")' :
                           ValidWorkspace(batches'[b].log[p].namespace)
       /\ \A k \in 1..Len(queries') :
             k \notin QueryIds =>
                 /\ ~Unbound
                 /\ ValidWorkspace(queries'[k].request.namespace)]_vars


\* C11: handleSubmit with a non-blank question and a workspace persisted
\* sends exactly one request, with the question as typed, the workspace
\* persisted at that moment and top_k 10; no other step sends a query request.
C11_OneQueryRequest ==
    [][/\ (Trim(query) # EmptyStr /\ ~Unbound /\ HandleSubmit) =>
             /\ Len(queries') = Len(queries) + 1
             /\ queries'[Len(queries')].request =
                    [query |-> query, top_k |-> 10, namespace |-> stored]
       /\ Len(queries') <= Len(queries) + 1
       /\ \A k \in QueryIds : queries'[k].request = queries[k].request
       /\ Len(queries') > Len(queries) => (Trim(query) # EmptyStr /\ ~Unbound)]_vars

\* C11 witness: a request was sent with a question that has blanks around it
\* and the second workspace name.
C11_Witness ==
    /\ Len(queries) = 1
    /\ queries[1].request = [query |-> <<" ", "r", " ">>, top_k |-> 10,
                             namespace |-> <<"-", "Z">>]

C13_BlankQuestion ==
    [][(Trim(query) = EmptyStr /\ HandleSubmit) =>
           UNCHANGED <<answer, sources, error, loading, queries>>]_vars

\* C13 witness: the question is a blank, a workspace is persisted, and an
\* answer is displayed.
C13_Witness ==
    /\ query = <<" ">>
    /\ ~Unbound
    /\ answer # EmptyStr
    /\ Len(queries) < MaxQueries

\* C14: handleSubmit with a non-blank question and no workspace persisted
\* (absent or empty) sends no request and shows an error.
C14_AskWithoutWorkspace ==
    [][(Trim(query) # EmptyStr /\ Unbound /\ HandleSubmit) =>
           /\ queries' = queries
           /\ error' = NoWorkspaceError
           /\ error' # EmptyStr]_vars

\* C14 witness: the error is shown for a non-blank question with the empty
\* string persisted.
C14_Witness ==
    /\ stored = EmptyStr
    /\ Trim(query) # EmptyStr
    /\ error = NoWorkspaceError
    /\ \A k \in QueryIds : queries[k].pc = "done"

\* The positions of x that hold an allowed character.
AllowedPositions(x) == {p \in 1..Len(x) : x[p] \in AllowedChars}

\* y consists of exactly the allowed characters of x, in their order in x: the
\* n-th allowed position of x supplies y[n].
IsAllowedSubsequence(y, x) ==
    /\ Len(y) = Cardinality(AllowedPositions(x))
    /\ \A p \in AllowedPositions(x) :
          y[Cardinality({q \in AllowedPositions(x) : q <= p})] = x[p]

\* C15: for every raw value x, typing x into the workspace field persists
\* exactly the allowed characters of x in their order, getNamespace returns
\* that value, and sanitizing the persisted value again changes nothing.
C15_SanitizedBinding ==
    [][\A x \in RawValues :
          HandleNamespaceChange(x) =>
              /\ IsAllowedSubsequence(stored', x)
              /\ GetNamespace' = stored'
              /\ namespace' = stored'
              /\ Sanitize(stored') = stored']_vars

\* C15 witness: a value of full length with a hyphen, an underscore and a
\* digit was persisted.
C15_Witness == stored = <<"-", "_", "0">> /\ namespace = stored

\* C16: a value that sanitizes to the empty string is persisted as the empty
\* string; after clearNamespace, getNamespace returns null; and while the
\* persisted value is null or empty, onDrop with files sends no request and
\* shows the missing-workspace message, and handleSubmit with a question sends
\* no request and shows its error.
C16_UnboundBlocksRequests ==
    [][/\ \A x \in NamespaceInputs :
             (Sanitize(x) = EmptyStr /\ HandleNamespaceChange(x)) => stored' = EmptyStr
       /\ ClearNamespace => GetNamespace' = Absent
       /\ \A acceptedFiles \in FileLists(Files, MaxBatchLen) :
             (Unbound /\ Len(acceptedFiles) > 0 /\ OnDrop(acceptedFiles)) =>
                 /\ batches' = batches
                 /\ globalMessage' = MissingWorkspaceMessage
       /\ (Unbound /\ Trim(query) # EmptyStr /\ HandleSubmit) =>
             /\ queries' = queries
             /\ error' = NoWorkspaceError]_vars

\* C17: once every batch has finished, the message on display is the one of
\* the batch that onDrop started last, unless a later onDrop without a
\* workspace replaced it with the missing-workspace message.
C17_MessageOfLastBatch ==
    (/\ Len(batches) > 0
     /\ \A b \in BatchIds : batches[b].pc = "done"
     /\ globalMessage # MissingWorkspaceMessage) =>
        LET last == Len(batches) IN
        globalMessage = BatchMessage(Succeeded(last), Failed(last),
                                     batches[last].namespace)

\* C18: onDrop with an empty list sends nothing and leaves the file list, the
\* batches and the message as they are, with or without a workspace.
C18_EmptyDrop ==
    [][OnDrop(<< >>) =>
           UNCHANGED <<files, batches, globalMessage, namespaceError>>]_vars

\* C18 witness: with no workspace and a finished batch's message on display,
\* an empty drop can arrive.
C18_Witness ==
    /\ Unbound
    /\ NamespaceMissing(namespace)
    /\ Len(files) > 0
    /\ globalMessage # Null
    /\ globalMessage # MissingWorkspaceMessage
    /\ Len(batches) < MaxBatches

\* C19: a request is sent with the workspace that is persisted, and held by
\* the upload component, in the step that sends it.
C19_RequestCarriesCurrentWorkspace ==
    [][\A b \in 1..Len(batches') :
          \A p \in 1..Len(batches'[b].log) :
              (/\ batches'[b].log[p].ev = "request"
               /\ (b > Len(batches) \/ p > Len(batches[b].log))) =>
                  /\ batches'[b].log[p].namespace = stored'
                  /\ batches'[b].log[p].namespace = namespace']_vars

\* The item that batch b added for its k-th file is shown as uploading.
Pending(b, k) ==
    \E j \in 1..Len(files) :
        files[j].origin = <<b, k>> /\ files[j].status = "uploading"

\* C20: when every request sent is eventually answered or rejected, every
\* item shown as uploading eventually is not, and every batch that onDrop
\* started and that is waiting for a request eventually ends its loop and
\* shows its message.
C20_UploadsTerminate ==
    /\ \A b \in 1..MaxBatches, k \in 1..MaxBatchLen :
          Pending(b, k) ~> ~Pending(b, k)
    /\ \A b \in 1..MaxBatches :
          (Len(batches) >= b /\ batches[b].pc = "await") ~>
              (/\ Len(batches) >= b
               /\ batches[b].pc = "done"
               /\ globalMessage = BatchMessage(Succeeded(b), Failed(b),
                                               batches[b].namespace))

\* C20 witness: a batch of two files has ended although both of its requests
\* were rejected, and none of its items is shown as uploading.
C20_Witness ==
    \E b \in BatchIds :
        /\ batches[b].pc = "done"
        /\ Len(batches[b].acceptedFiles) = 2
        /\ \A i \in 1..2 : OutcomeOf(b, i).kind = "rejected"
        /\ \A k \in 1..2 : ~Pending(b, k)
        /\ globalMessage.type = "error"

\* C21: onDrop with files and a workspace appends one uploading item per
\* file, in the order of the files, after the items already listed, which it
\* leaves as they are; the state in which the batch's first request is out
\* already has the items.
C21_ItemsAppended ==
    [][\A acceptedFiles \in FileLists(Files, MaxBatchLen) :
          (Len(acceptedFiles) > 0 /\ ~Unbound /\ OnDrop(acceptedFiles)) =>
              /\ Len(files') = Len(files) + Len(acceptedFiles)
              /\ SubSeq(files', 1, Len(files)) = files
              /\ \A k \in 1..Len(acceptedFiles) :
                    /\ files'[Len(files) + k].file = acceptedFiles[k]
                    /\ files'[Len(files) + k].status = "uploading"
              /\ Len(batches') = Len(batches) + 1
              /\ batches'[Len(batches')].log =
                     <<UploadRequest(1, acceptedFiles[1], stored)>>]_vars

\* C21 witness: a second batch of two files was appended, in its own order,
\* after the two settled items of a first batch.
C21_Witness ==
    /\ Len(batches) = 2
    /\ Len(files) = 4
    /\ files[1].status = "success" /\ files[2].status = "error"
    /\ files[1].file = "f1" /\ files[2].file = "f2"
    /\ batches[1].pc = "done"
    /\ batches[2].acceptedFiles = <<"f2", "f1">>
    /\ Len(batches[2].log) = 1
    /\ files[3].file = "f2" /\ files[3].status = "uploading"
    /\ files[4].file = "f1" /\ files[4].status = "uploading"

\* The request of batch b that is outstanding, as a position in its files
Awaited(b) == batches[b].i

\* C22: in the step that settles a request, a rejection and an answer whose
\* result for the file has status "error" both make the file's item Failed
\* and add one to the batch's failures; an answer whose result has status
\* "success", or that has no results, makes the item Success and adds one to
\* the batch's successes.
C22_FailureShapesUniform ==
    [][\A b \in BatchIds :
          (batches[b].pc = "await" /\ batches'[b].log # batches[b].log) =>
              LET i == Awaited(b)
                  outcome == batches'[b].log[2 * i].outcome
                  failed == \/ outcome.kind = "rejected"
                            \/ /\ outcome.kind = "resolved"
                               /\ Len(outcome.results) > 0
                               /\ outcome.results[1].status = "error"
                  succeeded == /\ outcome.kind = "resolved"
                               /\ \/ Len(outcome.results) = 0
                                  \/ outcome.results[1].status = "success"
              IN /\ failed # succeeded
                 /\ \A k \in 1..Len(files') :
                       files'[k].origin = <<b, i>> =>
                           files'[k].status = IF failed THEN "error" ELSE "success"
                 /\ batches'[b].errorCount =
                        batches[b].errorCount + (IF failed THEN 1 ELSE 0)
                 /\ batches'[b].successCount =
                        batches[b].successCount + (IF succeeded THEN 1 ELSE 0)]_vars

\* C22 witness: a batch of two files is done; its first request was answered
\* without results and its item is Success, its second was answered with an
\* error for the file, and the batch counted one of each.
C22_Witness ==
    \E b \in BatchIds :
        /\ batches[b].pc = "done"
        /\ Len(batches[b].acceptedFiles) = 2
        /\ OutcomeOf(b, 1).kind = "resolved" /\ Len(OutcomeOf(b, 1).results) = 0
        /\ OutcomeOf(b, 2).kind = "resolved" /\ ~RequestSucceeded(OutcomeOf(b, 2))
        /\ batches[b].successCount = 1 /\ batches[b].errorCount = 1
        /\ \E k \in 1..Len(files) :
              files[k].origin = <<b, 1>> /\ files[k].status = "success"
        /\ \E k \in 1..Len(files) :
              files[k].origin = <<b, 2>> /\ files[k].status = "error"

\* The query requests that have not settled
QueriesOutstanding == {k \in QueryIds : queries[k].pc = "await"}

\* C23: loading is true exactly when a query request is outstanding.
C23_LoadingIffOutstanding == loading <=> QueriesOutstanding # {}

\* C24: the workspace held by the upload component agrees with the persisted
\* one: both are unbound, or both are the same non-empty string.
C24_OneWorkspace ==
    \/ Unbound /\ namespace = EmptyStr
    \/ ~Unbound /\ namespace = stored

\* C25: the answer and the sources on display are those of one and the same
\* answered request, or both are empty.
C25_AnswerAndSourcesTogether ==
    \/ answer = EmptyStr /\ sources = << >>
    \/ \E k \in QueryIds :
          /\ queries[k].pc = "done"
          /\ queries[k].outcome.kind = "resolved"
          /\ answer = queries[k].outcome.answer
          /\ sources = queries[k].outcome.sources

\* C25 witness: of two queries outstanding together the second was answered
\* first, with a source, and the first was rejected afterwards; the second's
\* answer and source are on display.
C25_Witness ==
    /\ Len(queries) = 2
    /\ queries[2].settled = 1 /\ queries[2].outcome.kind = "resolved"
    /\ queries[1].settled = 2 /\ queries[1].outcome.kind = "rejected"
    /\ Len(queries[2].outcome.sources) = 1
    /\ answer = queries[2].outcome.answer
    /\ sources = queries[2].outcome.sources

\* C26: no state shows an error together with an answer or with sources.
C26_ErrorExcludesResult ==
    error # EmptyStr => (answer = EmptyStr /\ sources = << >>)

\* C27: the delete button of the item at position k removes that item and no
\* other: the list afterwards is the list before without position k.
C27_RemovesOneItem ==
    [][\A k \in 1..Len(files) :
          ClickRemove(k) =>
              files' = SubSeq(files, 1, k - 1) \o SubSeq(files, k + 1, Len(files))]_vars

====
